---- MODULE Spec2Model ----
(***************************************************************************)
(* A model of app/main.py: the DNS wire-format codec (bit/byte accessors,  *)
(* DNSHeader, the label codec, DNSQuestion, DNSAnswer, DNSMessage) and the *)
(* UDP server loop of main().                                              *)
(*                                                                         *)
(* Byte buffers are sequences of integers 0..255.  Offsets keep the        *)
(* source's 0-based numbering; element `offset` of a buffer b is           *)
(* b[offset + 1].  A Python str is a sequence of code points.              *)
(***************************************************************************)
EXTENDS Integers, Sequences, FiniteSets, TLC

VARIABLES
    \* main(): the server loop
    pc, buf, source, query, requested, message, response, trace,
    \* the label codec applied to one name
    value, arr, decoded,
    \* one DNSHeader
    hdr, lastWrite, nwrites,
    \* one DNSQuestion and one DNSAnswer
    qPayload, qLast, aPayload, aLabelLen, aLast, nsets,
    \* one DNSMessage assembled through the codec, serialized and parsed back
    mQuestions, mAnswers, wire, parsed

serverVars  == <<pc, buf, source, query, requested, message, response, trace>>
labelVars   == <<value, arr, decoded>>
headerVars  == <<hdr, lastWrite, nwrites>>
recordVars  == <<qPayload, qLast, aPayload, aLabelLen, aLast, nsets>>
messageVars == <<mQuestions, mAnswers, wire, parsed>>
vars == <<serverVars, labelVars, headerVars, recordVars, messageVars>>

otherThanServer == <<labelVars, headerVars, recordVars, messageVars>>

----------------------------------------------------------------------------
(* Python primitives *)

\* Python evaluates an expression once and passes its value on.  EvalN(.., F)
\* is F applied to the values of its arguments, each evaluated exactly once.
Eval1(v, F(_)) == CHOOSE r \in {F(x) : x \in {v}} : TRUE
Eval2(v, w, F(_, _)) == CHOOSE r \in {F(x, y) : x \in {v}, y \in {w}} : TRUE
Eval3(u, v, w, F(_, _, _)) ==
    CHOOSE r \in {F(x, y, z) : x \in {u}, y \in {v}, z \in {w}} : TRUE

Min(a, b) == IF a < b THEN a ELSE b

Pow2(k) == 2 ^ k

\* a & b on non-negative integers
RECURSIVE BitAnd(_, _)
BitAnd(a_, b_) ==
    Eval2(a_, b_, LAMBDA a, b :
        IF a = 0 \/ b = 0 THEN 0
        ELSE ((a % 2) * (b % 2)) + (2 * BitAnd(a \div 2, b \div 2)))

\* a | b on non-negative integers
RECURSIVE BitOr(_, _)
BitOr(a_, b_) ==
    Eval2(a_, b_, LAMBDA a, b :
        IF a = 0 THEN b
        ELSE IF b = 0 THEN a
        ELSE (IF (a % 2) = 1 \/ (b % 2) = 1 THEN 1 ELSE 0)
             + (2 * BitOr(a \div 2, b \div 2)))

\* a & ~mask for a non-negative a
BitClear(a_, mask) == Eval1(a_, LAMBDA a : a - BitAnd(a, mask))

\* b[lo:hi], clipped to the buffer as Python slices are
Slice(b_, lo, hi) == Eval1(b_, LAMBDA b : SubSeq(b, lo + 1, Min(hi, Len(b))))

\* b[lo:]
SliceFrom(b_, lo) == Eval1(b_, LAMBDA b : SubSeq(b, lo + 1, Len(b)))

\* data[offset] = v
Store(data, offset, v) == [data EXCEPT ![offset + 1] = v]

\* bytearray(n)
Zeros(n) == [i \in 1..n |-> 0]

----------------------------------------------------------------------------
(* bytes.decode("utf-8") and bytes(str, encoding='utf-8') *)

IsCont(b) == b >= 128 /\ b <= 191

Utf8Fail == [ok |-> FALSE, s |-> <<>>]

\* b from its i-th byte on, s the characters decoded so far; strict: an
\* overlong form, a surrogate, a stray or a missing continuation byte raises
RECURSIVE Utf8DecodeFrom(_, _, _)
Utf8DecodeFrom(b_, i_, s_) ==
    Eval3(b_, i_, s_, LAMBDA b, i, s :
        IF i > Len(b) THEN [ok |-> TRUE, s |-> s]
        ELSE IF b[i] < 128 THEN Utf8DecodeFrom(b, i + 1, Append(s, b[i]))
        ELSE IF b[i] >= 194 /\ b[i] <= 223 THEN
            IF i + 1 <= Len(b) /\ IsCont(b[i + 1])
            THEN Utf8DecodeFrom(b, i + 2,
                     Append(s, ((b[i] - 192) * 64) + (b[i + 1] - 128)))
            ELSE Utf8Fail
        ELSE IF b[i] >= 224 /\ b[i] <= 239 THEN
            IF /\ i + 2 <= Len(b)
               /\ IsCont(b[i + 1])
               /\ IsCont(b[i + 2])
               /\ (b[i] = 224 => b[i + 1] >= 160)
               /\ (b[i] = 237 => b[i + 1] <= 159)
            THEN Utf8DecodeFrom(b, i + 3,
                     Append(s, ((b[i] - 224) * 4096) + ((b[i + 1] - 128) * 64)
                               + (b[i + 2] - 128)))
            ELSE Utf8Fail
        ELSE IF b[i] >= 240 /\ b[i] <= 244 THEN
            IF /\ i + 3 <= Len(b)
               /\ IsCont(b[i + 1])
               /\ IsCont(b[i + 2])
               /\ IsCont(b[i + 3])
               /\ (b[i] = 240 => b[i + 1] >= 144)
               /\ (b[i] = 244 => b[i + 1] <= 143)
            THEN Utf8DecodeFrom(b, i + 4,
                     Append(s, ((b[i] - 240) * 262144) + ((b[i + 1] - 128) * 4096)
                               + ((b[i + 2] - 128) * 64) + (b[i + 3] - 128)))
            ELSE Utf8Fail
        ELSE Utf8Fail)

Utf8Decode(b) == Utf8DecodeFrom(b, 1, <<>>)

Utf8Char(c) ==
    IF c < 128 THEN <<c>>
    ELSE IF c < 2048 THEN <<192 + (c \div 64), 128 + (c % 64)>>
    ELSE IF c < 65536 THEN
        <<224 + (c \div 4096), 128 + ((c \div 64) % 64), 128 + (c % 64)>>
    ELSE <<240 + (c \div 262144), 128 + ((c \div 4096) % 64),
           128 + ((c \div 64) % 64), 128 + (c % 64)>>

RECURSIVE Utf8Encode(_)
Utf8Encode(s_) ==
    Eval1(s_, LAMBDA s :
        IF s = <<>> THEN <<>> ELSE Utf8Char(Head(s)) \o Utf8Encode(Tail(s)))

----------------------------------------------------------------------------
(* The label codec *)

Dot == 46

\* value.split('.'): the segments between the dots, empty ones included
RECURSIVE SplitFrom(_, _, _)
SplitFrom(s_, cur_, acc_) ==
    Eval3(s_, cur_, acc_, LAMBDA s, cur, acc :
        IF s = <<>> THEN Append(acc, cur)
        ELSE IF Head(s) = Dot THEN SplitFrom(Tail(s), <<>>, Append(acc, cur))
        ELSE SplitFrom(Tail(s), Append(cur, Head(s)), acc))

Split(s) == SplitFrom(s, <<>>, <<>>)

EncodeFail == [ok |-> FALSE, arr |-> <<>>]

\* the for loop of _encode_labels: the length byte is the label's length in
\* characters, the bytes are its UTF-8 encoding; arr.append(len(label)) raises
\* for a label of more than 255 characters
RECURSIVE EncodeLoop(_, _)
EncodeLoop(labels_, arr_) ==
    Eval2(labels_, arr_, LAMBDA labels, acc :
        IF labels = <<>> THEN [ok |-> TRUE, arr |-> Append(acc, 0)]
        ELSE IF Len(Head(labels)) > 255 THEN EncodeFail
        ELSE EncodeLoop(Tail(labels),
                        Append(acc, Len(Head(labels))) \o Utf8Encode(Head(labels))))

_encode_labels(v) == EncodeLoop(Split(v), <<>>)

DecodeFail == [ok |-> FALSE, s |-> <<>>, offset |-> 0]

\* the while loop of _decode_labels: bytes[offset] raises past the end, the
\* slice is clipped, decode("utf-8") raises on an invalid sequence; the
\* segments are appended to s as they are, and the offset returned is the
\* terminator's
RECURSIVE DecodeLoop(_, _, _)
DecodeLoop(bytes_, offset_, s_) ==
    Eval3(bytes_, offset_, s_, LAMBDA bytes, offset, s :
        IF offset >= Len(bytes) THEN DecodeFail
        ELSE IF bytes[offset + 1] = 0 THEN [ok |-> TRUE, s |-> s, offset |-> offset]
        ELSE Eval1(Utf8Decode(Slice(bytes, offset + 1, offset + 1 + bytes[offset + 1])),
                   LAMBDA seg :
                       IF ~seg.ok THEN DecodeFail
                       ELSE DecodeLoop(bytes, offset + 1 + bytes[offset + 1],
                                       s \o seg.s)))

_decode_labels(bytes, offset) == DecodeLoop(bytes, offset, <<>>)

----------------------------------------------------------------------------
(* Bit/byte field accessors *)

_32bit_get(data_, offset_) ==
    Eval2(data_, offset_, LAMBDA data, offset :
        (data[offset + 1] * 16777216) + (data[offset + 2] * 65536)
        + (data[offset + 3] * 256) + data[offset + 4])

\* (value & 0xFF000000) >> 24 is written as (value >> 24) & 0xFF: the mask does
\* not fit TLC's 32-bit integers, and so the model's ttl values stay below 2^31
_32bit_set(data_, offset_, v_) ==
    Eval3(data_, offset_, v_, LAMBDA data, offset, v :
        [data EXCEPT ![offset + 1] = BitAnd(v \div 16777216, 255),
                     ![offset + 2] = BitAnd(v, 16711680) \div 65536,
                     ![offset + 3] = BitAnd(v, 65280) \div 256,
                     ![offset + 4] = BitAnd(v, 255)])

_16bit_get(data_, offset_) ==
    Eval2(data_, offset_, LAMBDA data, offset :
        (data[offset + 1] * 256) + data[offset + 2])

_16bit_set(data_, offset_, v_) ==
    Eval3(data_, offset_, v_, LAMBDA data, offset, v :
        [data EXCEPT ![offset + 1] = BitAnd(v, 65280) \div 256,
                     ![offset + 2] = BitAnd(v, 255)])

_bit_get(data, offset, shift) ==
    BitAnd(data[offset + 1], Pow2(shift)) \div Pow2(shift)

\* clears the bit, then sets it when value is truthy
_bit_set(data_, offset, shift, v) ==
    Eval1(Store(data_, offset, BitClear(data_[offset + 1], Pow2(shift))),
          LAMBDA cleared :
              IF v # 0
              THEN Store(cleared, offset, BitOr(cleared[offset + 1], Pow2(shift)))
              ELSE cleared)

_bits_get(data, offset, mask, shift) ==
    BitAnd(data[offset + 1], mask) \div Pow2(shift)

_bits_set(data_, offset, mask, shift, v) ==
    Eval1(data_, LAMBDA data :
        Store(data, offset, BitOr(BitClear(data[offset + 1], mask), v * Pow2(shift))))

----------------------------------------------------------------------------
(* DNSHeader: the properties of the 12-byte header, by field name *)

BitFields == {"qr", "opcode", "aa", "tc", "rd", "ra", "z", "rcode"}
WordFields == {"id", "qdcount", "ancount", "nscount", "arcount"}
HeaderFields == BitFields \cup WordFields

\* the property getters
DNSHeader_get(h_, f) ==
    Eval1(h_, LAMBDA h :
        CASE f = "id"      -> _16bit_get(h, 0)
          [] f = "qr"      -> _bit_get(h, 2, 7)
          [] f = "opcode"  -> _bits_get(h, 2, 120, 3)
          [] f = "aa"      -> _bits_get(h, 2, 4, 2)
          [] f = "tc"      -> _bits_get(h, 2, 2, 1)
          [] f = "rd"      -> _bits_get(h, 2, 1, 0)
          [] f = "ra"      -> _bits_get(h, 3, 128, 7)
          [] f = "z"       -> _bits_get(h, 3, 112, 4)
          [] f = "rcode"   -> _bits_get(h, 3, 15, 0)
          [] f = "qdcount" -> _16bit_get(h, 4)
          [] f = "ancount" -> _16bit_get(h, 6)
          [] f = "nscount" -> _16bit_get(h, 8)
          [] f = "arcount" -> _16bit_get(h, 10))

\* the property setters; the multi-bit ones mask the value at the call site,
\* qr hands it to _bit_set as it is
DNSHeader_set(h_, f, v_) ==
    Eval2(h_, v_, LAMBDA h, v :
        CASE f = "id"      -> _16bit_set(h, 0, v)
          [] f = "qr"      -> _bit_set(h, 2, 7, v)
          [] f = "opcode"  -> _bits_set(h, 2, 120, 3, BitAnd(v, 15))
          [] f = "aa"      -> _bits_set(h, 2, 4, 2, BitAnd(v, 1))
          [] f = "tc"      -> _bits_set(h, 2, 2, 1, BitAnd(v, 1))
          [] f = "rd"      -> _bits_set(h, 2, 1, 0, BitAnd(v, 1))
          [] f = "ra"      -> _bits_set(h, 3, 128, 7, BitAnd(v, 1))
          [] f = "z"       -> _bits_set(h, 3, 112, 4, BitAnd(v, 7))
          [] f = "rcode"   -> _bits_set(h, 3, 15, 0, BitAnd(v, 15))
          [] f = "qdcount" -> _16bit_set(h, 4, v)
          [] f = "ancount" -> _16bit_set(h, 6, v)
          [] f = "nscount" -> _16bit_set(h, 8, v)
          [] f = "arcount" -> _16bit_set(h, 10, v))

----------------------------------------------------------------------------
(* DNSRRType, DNSRRClass *)

DNSRRType == 1..16
DNSRRClass == 1..4
DNSRRType_A == 1
DNSRRClass_IN == 1

----------------------------------------------------------------------------
(* DNSQuestion: _payload *)

\* self._payload[:-4] = _encode_labels(value); a payload shorter than four
\* bytes keeps all its bytes after the name
DNSQuestion_set_domain_name(p_, v) ==
    Eval2(p_, _encode_labels(v), LAMBDA p, enc :
        [ok      |-> enc.ok,
         payload |-> enc.arr \o SliceFrom(p, IF Len(p) > 4 THEN Len(p) - 4 ELSE 0)])

DNSQuestion_domain_name(p) == _decode_labels(p, 0)

\* the wire code under typ / cls; DNSRRType(code) and DNSRRClass(code) raise
\* outside the enumeration
DNSQuestion_typ(p_) == Eval1(p_, LAMBDA p : _16bit_get(p, Len(p) - 4))
DNSQuestion_set_typ(p_, ty) == Eval1(p_, LAMBDA p : _16bit_set(p, Len(p) - 4, ty))
DNSQuestion_cls(p_) == Eval1(p_, LAMBDA p : _16bit_get(p, Len(p) - 2))
DNSQuestion_set_cls(p_, c) == Eval1(p_, LAMBDA p : _16bit_set(p, Len(p) - 2, c))

----------------------------------------------------------------------------
(* DNSAnswer: [payload |-> _payload, label_len |-> _label_len] *)

DNSAnswer_new(p) == [payload |-> p, label_len |-> 0]

\* the name replaced without recording its new length
DNSAnswer_set_name_stale(a_, v) ==
    Eval2(a_, _encode_labels(v), LAMBDA a, enc :
        [ok |-> enc.ok,
         a  |-> [payload   |-> enc.arr \o SliceFrom(a.payload, a.label_len),
                 label_len |-> a.label_len]])

DNSAnswer_set_name(a_, v) ==
    Eval2(a_, _encode_labels(v), LAMBDA a, enc :
        [ok |-> enc.ok,
         a  |-> [payload   |-> enc.arr \o SliceFrom(a.payload, a.label_len),
                 label_len |-> Len(enc.arr)]])

DNSAnswer_name(a) == _decode_labels(a.payload, 0)

DNSAnswer_typ(a_) == Eval1(a_, LAMBDA a : _16bit_get(a.payload, a.label_len))
DNSAnswer_set_typ(a_, ty) ==
    Eval1(a_, LAMBDA a :
        [a EXCEPT !.payload = _16bit_set(a.payload, a.label_len, ty)])
DNSAnswer_cls(a_) == Eval1(a_, LAMBDA a : _16bit_get(a.payload, a.label_len + 2))
DNSAnswer_set_cls(a_, c) ==
    Eval1(a_, LAMBDA a :
        [a EXCEPT !.payload = _16bit_set(a.payload, a.label_len + 2, c)])
DNSAnswer_ttl(a_) == Eval1(a_, LAMBDA a : _32bit_get(a.payload, a.label_len + 4))
DNSAnswer_set_ttl(a_, v) ==
    Eval1(a_, LAMBDA a :
        [a EXCEPT !.payload = _32bit_set(a.payload, a.label_len + 4, v)])
DNSAnswer_length(a_) == Eval1(a_, LAMBDA a : _16bit_get(a.payload, a.label_len + 8))
DNSAnswer_set_length(a_, v) ==
    Eval1(a_, LAMBDA a :
        [a EXCEPT !.payload = _16bit_set(a.payload, a.label_len + 8, v)])
DNSAnswer_data(a_) == Eval1(a_, LAMBDA a : SliceFrom(a.payload, a.label_len + 10))
\* self.length = len(value), then the data region is replaced
DNSAnswer_set_data(a_, v_) ==
    Eval2(DNSAnswer_set_length(a_, Len(v_)), v_, LAMBDA b, v :
        [b EXCEPT !.payload = Slice(b.payload, 0, b.label_len + 10) \o v])

----------------------------------------------------------------------------
(* DNSMessage: [header, questions, answers]; questions are DNSQuestion      *)
(* payloads, answers are DNSAnswer records                                  *)

RECURSIVE Concat(_)
Concat(seqs_) ==
    Eval1(seqs_, LAMBDA seqs :
        IF seqs = <<>> THEN <<>> ELSE Head(seqs) \o Concat(Tail(seqs)))

\* __init__ writes the list lengths into the header
DNSMessage_new(header, questions_, answers_) ==
    Eval2(questions_, answers_, LAMBDA questions, answers :
        [header    |-> DNSHeader_set(DNSHeader_set(header, "qdcount", Len(questions)),
                                     "ancount", Len(answers)),
         questions |-> questions,
         answers   |-> answers])

DNSMessage_payload(m_) ==
    Eval1(m_, LAMBDA m :
        m.header \o Concat(m.questions)
                 \o Concat([i \in 1..Len(m.answers) |-> m.answers[i].payload]))

NoMessage == [header |-> <<>>, questions |-> <<>>, answers |-> <<>>]

ParseFail == [ok |-> FALSE, offset |-> 0, items |-> <<>>]

\* the first for loop of from_bytes, with n questions left to read
RECURSIVE ParseQuestions(_, _, _, _)
ParseQuestions(payload, offset_, n, acc_) ==
    Eval2(_decode_labels(payload, offset_), acc_, LAMBDA d, acc :
        IF n = 0 THEN [ok |-> TRUE, offset |-> offset_, items |-> acc]
        ELSE IF ~d.ok THEN ParseFail
        ELSE Eval1(DNSQuestion_set_domain_name(
                       Slice(payload, d.offset + 1, d.offset + 5), d.s),
                   LAMBDA q :
                       IF ~q.ok THEN ParseFail
                       ELSE ParseQuestions(payload, d.offset + 5, n - 1,
                                           Append(acc, q.payload))))

\* the second for loop of from_bytes, with n answers left to read;
\* data = payload[offset] raises when the buffer ends with the 10-byte block
RECURSIVE ParseAnswers(_, _, _, _)
ParseAnswers(payload, offset_, n, acc_) ==
    Eval2(_decode_labels(payload, offset_), acc_, LAMBDA d, acc :
        IF n = 0 THEN [ok |-> TRUE, offset |-> offset_, items |-> acc]
        ELSE IF ~d.ok THEN ParseFail
        ELSE Eval1(DNSAnswer_set_name(
                       DNSAnswer_new(Slice(payload, d.offset + 1, d.offset + 11)),
                       d.s),
                   LAMBDA a :
                       IF ~a.ok \/ d.offset + 11 >= Len(payload) THEN ParseFail
                       ELSE ParseAnswers(
                                payload,
                                d.offset + 11 + payload[d.offset + 12] + 1,
                                n - 1,
                                Append(acc, DNSAnswer_set_data(a.a,
                                    Slice(payload, d.offset + 12,
                                          d.offset + 12 + payload[d.offset + 12]))))))

\* DNSHeader.__init__ asserts a 12-byte header
DNSMessage_from_bytes(payload_) ==
    Eval1(payload_, LAMBDA payload :
        IF Len(Slice(payload, 0, 12)) # 12 THEN [ok |-> FALSE, msg |-> NoMessage]
        ELSE Eval1(ParseQuestions(payload, 12,
                       DNSHeader_get(Slice(payload, 0, 12), "qdcount"), <<>>),
                   LAMBDA qs :
            IF ~qs.ok THEN [ok |-> FALSE, msg |-> NoMessage]
            ELSE Eval1(ParseAnswers(payload, qs.offset,
                           DNSHeader_get(Slice(payload, 0, 12), "ancount"), <<>>),
                       LAMBDA as :
                IF ~as.ok THEN [ok |-> FALSE, msg |-> NoMessage]
                ELSE [ok  |-> TRUE,
                      msg |-> DNSMessage_new(Slice(payload, 0, 12),
                                             qs.items, as.items)])))

----------------------------------------------------------------------------
(* main(): the reply built for a parsed request *)

TTL == 60
Address == <<8, 8, 8, 8>>

BuildFail == [ok |-> FALSE, items |-> <<>>]

\* question = DNSQuestion(bytearray(4)); question.domain_name = q.domain_name;
\* question.typ = DNSRRType.A; question.cls = DNSRRClass.IN
ReplyQuestion(q) ==
    Eval1(DNSQuestion_domain_name(q), LAMBDA d :
        IF ~d.ok THEN [ok |-> FALSE, payload |-> <<>>]
        ELSE Eval1(DNSQuestion_set_domain_name(Zeros(4), d.s), LAMBDA n :
            IF ~n.ok THEN [ok |-> FALSE, payload |-> <<>>]
            ELSE [ok      |-> TRUE,
                  payload |-> DNSQuestion_set_cls(
                                  DNSQuestion_set_typ(n.payload, DNSRRType_A),
                                  DNSRRClass_IN)]))

\* for q in requested.questions
RECURSIVE ReplyQuestions(_, _)
ReplyQuestions(qs_, acc_) ==
    Eval2(qs_, acc_, LAMBDA qs, acc :
        IF qs = <<>> THEN [ok |-> TRUE, items |-> acc]
        ELSE Eval1(ReplyQuestion(Head(qs)), LAMBDA q :
            IF ~q.ok THEN BuildFail
            ELSE ReplyQuestions(Tail(qs), Append(acc, q.payload))))

\* answer = DNSAnswer(bytearray(10)); answer.name = a.name; answer.typ, cls,
\* ttl and data
ReplyAnswer(a) ==
    Eval1(DNSAnswer_name(a), LAMBDA d :
        IF ~d.ok THEN [ok |-> FALSE, a |-> DNSAnswer_new(<<>>)]
        ELSE Eval1(DNSAnswer_set_name(DNSAnswer_new(Zeros(10)), d.s), LAMBDA n :
            IF ~n.ok THEN [ok |-> FALSE, a |-> DNSAnswer_new(<<>>)]
            ELSE [ok |-> TRUE,
                  a  |-> DNSAnswer_set_data(
                             DNSAnswer_set_ttl(
                                 DNSAnswer_set_cls(
                                     DNSAnswer_set_typ(n.a, DNSRRType_A),
                                     DNSRRClass_IN),
                                 TTL),
                             Address)]))

\* for a in requested.answers
RECURSIVE ReplyAnswers(_, _)
ReplyAnswers(as_, acc_) ==
    Eval2(as_, acc_, LAMBDA as, acc :
        IF as = <<>> THEN [ok |-> TRUE, items |-> acc]
        ELSE Eval1(ReplyAnswer(Head(as)), LAMBDA a :
            IF ~a.ok THEN BuildFail
            ELSE ReplyAnswers(Tail(as), Append(acc, a.a))))

\* the rcode left at 0 whatever the opcode
ReplyRcode_zero(opcode) == 0

\* header.rcode = 0 if requested.header.opcode == 0 else 4
ReplyRcode(opcode) == IF opcode = 0 THEN 0 ELSE 4

\* header = DNSHeader(bytearray(12)) and the five assignments to it
ReplyHeader(req_) ==
    Eval1(req_, LAMBDA req :
        DNSHeader_set(
            DNSHeader_set(
                DNSHeader_set(
                    DNSHeader_set(
                        DNSHeader_set(Zeros(12), "id", DNSHeader_get(req.header, "id")),
                        "qr", 1),
                    "opcode", DNSHeader_get(req.header, "opcode")),
                "rd", DNSHeader_get(req.header, "rd")),
            "rcode", ReplyRcode(DNSHeader_get(req.header, "opcode"))))

\* the body of the try block between from_bytes and payload()
BuildReply(req_) ==
    Eval1(req_, LAMBDA req :
        Eval2(ReplyQuestions(req.questions, <<>>), ReplyAnswers(req.answers, <<>>),
              LAMBDA qs, as :
                  IF ~qs.ok \/ ~as.ok THEN [ok |-> FALSE, msg |-> NoMessage]
                  ELSE [ok  |-> TRUE,
                        msg |-> DNSMessage_new(ReplyHeader(req), qs.items, as.items)]))

----------------------------------------------------------------------------
(* The datagrams the clients send *)

MaxQuestions == 2
MaxAnswers == 1
MaxCut == 1
MaxDatagrams == 2

Sources == {"client1", "client2"}

\* names as label lists: "a", "a.bc", and a label of the two bytes of U+00E9
NameA == << <<97>> >>
NameABC == << <<97>>, <<98, 99>> >>
NameE9 == << <<195, 169>> >>

\* questions: type A / class IN, and one with a type code past TXT
QuestionCases ==
    { [name |-> NameA,   typ |-> 1,  cls |-> 1],
      [name |-> NameABC, typ |-> 1,  cls |-> 1],
      [name |-> NameA,   typ |-> 17, cls |-> 1] }

\* answers: one with a class code past HS, one with a non-ASCII name and no data
AnswerCases ==
    { [name |-> NameA,  typ |-> 1, cls |-> 5, ttl |-> 300, data |-> <<8, 8>>],
      [name |-> NameE9, typ |-> 1, cls |-> 1, ttl |-> 0,   data |-> <<>>] }

\* headers: the plain query id=1234 rd=1, and one with rd=0 and every bit the
\* reply must not copy (aa, tc, ra, z, rcode, nscount, arcount) set
HeaderCases ==
    { [id |-> 1234,  opcode |-> o, rd |-> 1, other |-> 0] : o \in {0, 1, 15} }
    \cup
    { [id |-> 65535, opcode |-> o, rd |-> 0, other |-> 1] : o \in {0, 1, 15} }

SeqsUpTo(S, n) == UNION { [1..k -> S] : k \in 0..n }

Queries ==
    { [header |-> h, questions |-> qs, answers |-> as, cut |-> c] :
        h \in HeaderCases, qs \in SeqsUpTo(QuestionCases, MaxQuestions),
        as \in SeqsUpTo(AnswerCases, MaxAnswers), c \in 0..MaxCut }

NoQuery == [header |-> [id |-> 0, opcode |-> 0, rd |-> 0, other |-> 0],
            questions |-> <<>>, answers |-> <<>>, cut |-> 0]

Word16(v) == <<v \div 256, v % 256>>
Word32(v) == <<v \div 16777216, (v \div 65536) % 256, (v \div 256) % 256, v % 256>>

RECURSIVE NameWire(_)
NameWire(labels) ==
    IF labels = <<>> THEN <<0>>
    ELSE <<Len(Head(labels))>> \o Head(labels) \o NameWire(Tail(labels))

QuestionWire(q) == NameWire(q.name) \o Word16(q.typ) \o Word16(q.cls)

\* an answer as the parser reads one: the name, the 10-byte block, one length
\* byte, the data
AnswerWire(a) ==
    NameWire(a.name) \o Word16(a.typ) \o Word16(a.cls) \o Word32(a.ttl)
        \o Word16(Len(a.data)) \o <<Len(a.data)>> \o a.data

HeaderWire(h, nq, na) ==
    Word16(h.id)
        \o <<(h.opcode * 8) + (h.other * 6) + h.rd, h.other * 255>>
        \o Word16(nq) \o Word16(na)
        \o Word16(h.other * 65535) \o Word16(h.other * 65535)

FullWire(q) ==
    HeaderWire(q.header, Len(q.questions), Len(q.answers))
        \o Concat([i \in 1..Len(q.questions) |-> QuestionWire(q.questions[i])])
        \o Concat([i \in 1..Len(q.answers) |-> AnswerWire(q.answers[i])])

\* the datagram on the wire: the message with its last q.cut bytes missing
QueryWire(q) == LET w == FullWire(q) IN SubSeq(w, 1, Len(w) - q.cut)

----------------------------------------------------------------------------
(* main(): the server loop.  pc is "recv" at the top of the loop (blocked   *)
(* in recvfrom), "handle" after recvfrom returned, "send" when the reply is *)
(* built and sendto is called, "done" after break.                         *)
(* trace is the socket's history: the datagrams read and the replies sent.  *)

RecvSize == 512

Received(t) == Len(SelectSeq(t, LAMBDA e : e.kind = "recv"))

ServerInit ==
    /\ pc = "recv"
    /\ buf = <<>>
    /\ source = "none"
    /\ query = NoQuery
    /\ requested = NoMessage
    /\ message = NoMessage
    /\ response = <<>>
    /\ trace = <<>>

\* buf, source = udp_socket.recvfrom(512): some client's datagram arrives
Recv ==
    /\ pc = "recv"
    /\ Received(trace) < MaxDatagrams
    /\ \E q \in Queries, src \in Sources :
           /\ buf' = Slice(QueryWire(q), 0, RecvSize)
           /\ source' = src
           /\ query' = q
           /\ trace' = Append(trace, [kind |-> "recv", addr |-> src])
    /\ pc' = "handle"
    /\ UNCHANGED <<requested, message, response>>
    /\ UNCHANGED otherThanServer

\* recvfrom raises: except ... break
RecvFail ==
    /\ pc = "recv"
    /\ pc' = "done"
    /\ UNCHANGED <<buf, source, query, requested, message, response, trace>>
    /\ UNCHANGED otherThanServer

\* requested = DNSMessage.from_bytes(buf) ... response = message.payload():
\* what the try block computes from buf before sendto, ok when nothing raised
Handle(b) ==
    Eval1(DNSMessage_from_bytes(b), LAMBDA req :
        Eval1(IF req.ok THEN BuildReply(req.msg) ELSE [ok |-> FALSE, msg |-> NoMessage],
              LAMBDA rep :
                  [ok        |-> rep.ok,
                   requested |-> req.msg,
                   message   |-> rep.msg,
                   response  |-> IF rep.ok THEN DNSMessage_payload(rep.msg) ELSE <<>>]))

\* the try block ran up to sendto without raising: the loop is about to send
Build(h) ==
    /\ requested' = h.requested
    /\ message' = h.message
    /\ response' = h.response
    /\ pc' = "send"
    /\ UNCHANGED <<buf, source, query, trace>>

\* the loop carrying on after an exception (continue for break)
HandleFail_continue(h) ==
    /\ requested' = h.requested
    /\ pc' = "recv"
    /\ UNCHANGED <<buf, source, query, message, response, trace>>

\* from_bytes or the building of the reply raises: except ... break
HandleFail(h) ==
    /\ requested' = h.requested
    /\ pc' = "done"
    /\ UNCHANGED <<buf, source, query, message, response, trace>>

\* requested = DNSMessage.from_bytes(buf) ... response = message.payload()
Process ==
    /\ pc = "handle"
    /\ \E h \in {Handle(buf)} : IF h.ok THEN Build(h) ELSE HandleFail(h)
    /\ UNCHANGED otherThanServer

\* udp_socket.sendto(response, source) returns and the loop starts over; the
\* locals of the finished iteration are dead from here on
Send ==
    /\ pc = "send"
    /\ trace' = Append(trace, [kind |-> "send", addr |-> source])
    /\ pc' = "recv"
    /\ buf' = <<>>
    /\ source' = "none"
    /\ query' = NoQuery
    /\ requested' = NoMessage
    /\ message' = NoMessage
    /\ response' = <<>>
    /\ UNCHANGED otherThanServer

\* sendto raises: except ... break
SendFail ==
    /\ pc = "send"
    /\ pc' = "done"
    /\ UNCHANGED <<buf, source, query, requested, message, response, trace>>
    /\ UNCHANGED otherThanServer

----------------------------------------------------------------------------
(* The other objects at rest *)

NotDecoded == [ok |-> FALSE, s |-> <<>>, offset |-> -1]
NoWrite == [field |-> "none", v |-> 0]
NoRecord == [name |-> <<>>, named |-> 0, typ |-> 0, cls |-> 0, ttl |-> 0,
             length |-> 0, data |-> <<>>]
NotParsed == [ok |-> FALSE, msg |-> NoMessage, done |-> FALSE]

LabelsIdle == value = <<>> /\ arr = <<>> /\ decoded = NotDecoded
HeaderIdle == hdr = Zeros(12) /\ lastWrite = NoWrite /\ nwrites = 0
RecordsIdle ==
    /\ qPayload = Zeros(4)
    /\ qLast = NoRecord
    /\ aPayload = Zeros(10)
    /\ aLabelLen = 0
    /\ aLast = NoRecord
    /\ nsets = 0
MessageIdle ==
    mQuestions = <<>> /\ mAnswers = <<>> /\ wire = <<>> /\ parsed = NotParsed

Init == ServerInit /\ LabelsIdle /\ HeaderIdle /\ RecordsIdle /\ MessageIdle

Next ==
    \/ Recv
    \/ RecvFail
    \/ Process
    \/ Send
    \/ SendFail

Spec == Init /\ [][Next]_vars

----------------------------------------------------------------------------
(* The label codec on one name: SpecLabels *)

MaxNameLen == 3

\* 'a', 'b', '.', and U+00E9
Chars == {97, 98, 46, 233}
Names == SeqsUpTo(Chars, MaxNameLen)

otherThanLabels == <<serverVars, headerVars, recordVars, messageVars>>

InitLabels ==
    /\ value \in Names
    /\ arr = <<>>
    /\ decoded = NotDecoded
    /\ ServerInit /\ HeaderIdle /\ RecordsIdle /\ MessageIdle

\* arr = _encode_labels(value)
EncodeLabels ==
    /\ arr = <<>>
    /\ _encode_labels(value).ok
    /\ arr' = _encode_labels(value).arr
    /\ UNCHANGED <<value, decoded>>
    /\ UNCHANGED otherThanLabels

\* _decode_labels(arr, 0)
DecodeLabels ==
    /\ arr # <<>>
    /\ decoded = NotDecoded
    /\ decoded' = _decode_labels(arr, 0)
    /\ UNCHANGED <<value, arr>>
    /\ UNCHANGED otherThanLabels

NextLabels == EncodeLabels \/ DecodeLabels

SpecLabels == InitLabels /\ [][NextLabels]_vars

\* zero or more non-empty segments joined by '.'
WellFormedName(v) ==
    \/ v = <<>>
    \/ /\ v[1] # Dot
       /\ v[Len(v)] # Dot
       /\ \A i \in 1..(Len(v) - 1) : ~(v[i] = Dot /\ v[i + 1] = Dot)

\* C3: for a name of zero or more non-empty dot-free segments joined by '.',
\* decoding its encoding from offset 0 succeeds and returns the name itself.
C3_LabelRoundTrip ==
    (decoded # NotDecoded /\ WellFormedName(value))
        => (decoded.ok /\ decoded.s = value)

----------------------------------------------------------------------------
(* One DNSHeader written through its setters: SpecHeader *)

MaxWrites == 2

WriteValues == {0, 1, 2, 5, 8, 15, 16}

otherThanHeader == <<serverVars, labelVars, recordVars, messageVars>>

InitHeader ==
    /\ hdr \in {Zeros(12), [i \in 1..12 |-> 255]}
    /\ lastWrite = NoWrite
    /\ nwrites = 0
    /\ ServerInit /\ LabelsIdle /\ RecordsIdle /\ MessageIdle

\* header.<f> = v
SetField ==
    /\ nwrites < MaxWrites
    /\ \E f \in HeaderFields, v \in WriteValues :
           /\ hdr' = DNSHeader_set(hdr, f, v)
           /\ lastWrite' = [field |-> f, v |-> v]
    /\ nwrites' = nwrites + 1
    /\ UNCHANGED otherThanHeader

NextHeader == SetField

SpecHeader == InitHeader /\ [][NextHeader]_vars

Width(f) ==
    CASE f \in {"qr", "aa", "tc", "rd", "ra"} -> 1
      [] f = "z" -> 3
      [] f \in {"opcode", "rcode"} -> 4

\* C9: a write of any non-negative value to a bit/mask field reads back as the
\* value masked to the field's width and leaves every other header field as it
\* was.
C9_BitFieldWrite ==
    [][ (nwrites' = nwrites + 1 /\ lastWrite'.field \in BitFields)
          => /\ DNSHeader_get(hdr', lastWrite'.field)
                    = lastWrite'.v % Pow2(Width(lastWrite'.field))
             /\ \A g \in HeaderFields \ {lastWrite'.field} :
                    DNSHeader_get(hdr', g) = DNSHeader_get(hdr, g)
      ]_vars

----------------------------------------------------------------------------
(* One DNSQuestion and one DNSAnswer written through their setters:         *)
(* SpecRecords.  qLast and aLast record the value last written to each      *)
(* field (the block's own value before any write) and how often the name    *)
(* was set.                                                                 *)

MaxSets == 4

\* "", "a", "a.bc"
RecordNames == {<<>>, <<97>>, <<97, 46, 98, 99>>}
TypValues == {1, 16}
ClsValues == {1, 4}
TtlValues == {60, 16909060}
LengthValues == {0, 5}
DataValues == {<<>>, <<1>>, <<8, 8, 8, 8>>}

QuestionBlocks == {Zeros(4), <<0, 16, 0, 4>>}
AnswerBlocks == {Zeros(10), <<0, 5, 0, 3, 0, 0, 1, 44, 0, 0>>}

otherThanRecords == <<serverVars, labelVars, headerVars, messageVars>>

answer == [payload |-> aPayload, label_len |-> aLabelLen]

\* DNSQuestion(block) and DNSAnswer(block)
InitRecords ==
    /\ qPayload \in QuestionBlocks
    /\ qLast = [NoRecord EXCEPT !.typ = (qPayload[1] * 256) + qPayload[2],
                                !.cls = (qPayload[3] * 256) + qPayload[4]]
    /\ aPayload \in AnswerBlocks
    /\ aLabelLen = 0
    /\ aLast = [NoRecord EXCEPT !.typ = (aPayload[1] * 256) + aPayload[2],
                                !.cls = (aPayload[3] * 256) + aPayload[4],
                                !.ttl = (aPayload[7] * 256) + aPayload[8]]
    /\ nsets = 0
    /\ ServerInit /\ LabelsIdle /\ HeaderIdle /\ MessageIdle

Counted ==
    /\ nsets < MaxSets
    /\ nsets' = nsets + 1
    /\ UNCHANGED otherThanRecords

\* question.domain_name = v
QSetName ==
    /\ \E v \in RecordNames :
           /\ DNSQuestion_set_domain_name(qPayload, v).ok
           /\ qPayload' = DNSQuestion_set_domain_name(qPayload, v).payload
           /\ qLast' = [qLast EXCEPT !.name = v, !.named = qLast.named + 1]
    /\ Counted
    /\ UNCHANGED <<aPayload, aLabelLen, aLast>>

\* question.typ = DNSRRType(t)
QSetTyp ==
    /\ \E t \in TypValues :
           /\ qPayload' = DNSQuestion_set_typ(qPayload, t)
           /\ qLast' = [qLast EXCEPT !.typ = t]
    /\ Counted
    /\ UNCHANGED <<aPayload, aLabelLen, aLast>>

\* question.cls = DNSRRClass(c)
QSetCls ==
    /\ \E c \in ClsValues :
           /\ qPayload' = DNSQuestion_set_cls(qPayload, c)
           /\ qLast' = [qLast EXCEPT !.cls = c]
    /\ Counted
    /\ UNCHANGED <<aPayload, aLabelLen, aLast>>

\* answer.name = v
ASetName ==
    /\ \E v \in RecordNames :
           /\ DNSAnswer_set_name(answer, v).ok
           /\ aPayload' = DNSAnswer_set_name(answer, v).a.payload
           /\ aLabelLen' = DNSAnswer_set_name(answer, v).a.label_len
           /\ aLast' = [aLast EXCEPT !.name = v, !.named = aLast.named + 1]
    /\ Counted
    /\ UNCHANGED <<qPayload, qLast>>

\* answer.typ = DNSRRType(t)
ASetTyp ==
    /\ \E t \in TypValues :
           /\ aPayload' = DNSAnswer_set_typ(answer, t).payload
           /\ aLast' = [aLast EXCEPT !.typ = t]
    /\ Counted
    /\ UNCHANGED <<qPayload, qLast, aLabelLen>>

\* answer.cls = DNSRRClass(c)
ASetCls ==
    /\ \E c \in ClsValues :
           /\ aPayload' = DNSAnswer_set_cls(answer, c).payload
           /\ aLast' = [aLast EXCEPT !.cls = c]
    /\ Counted
    /\ UNCHANGED <<qPayload, qLast, aLabelLen>>

\* answer.ttl = v
ASetTtl ==
    /\ \E v \in TtlValues :
           /\ aPayload' = DNSAnswer_set_ttl(answer, v).payload
           /\ aLast' = [aLast EXCEPT !.ttl = v]
    /\ Counted
    /\ UNCHANGED <<qPayload, qLast, aLabelLen>>

\* answer.length = v
ASetLength ==
    /\ \E v \in LengthValues :
           /\ aPayload' = DNSAnswer_set_length(answer, v).payload
           /\ aLast' = [aLast EXCEPT !.length = v]
    /\ Counted
    /\ UNCHANGED <<qPayload, qLast, aLabelLen>>

\* answer.data = v
ASetData ==
    /\ \E v \in DataValues :
           /\ aPayload' = DNSAnswer_set_data(answer, v).payload
           /\ aLast' = [aLast EXCEPT !.data = v, !.length = Len(v)]
    /\ Counted
    /\ UNCHANGED <<qPayload, qLast, aLabelLen>>

NextRecords ==
    \/ QSetName
    \/ QSetTyp
    \/ QSetCls
    \/ ASetName
    \/ ASetTyp
    \/ ASetCls
    \/ ASetTtl
    \/ ASetLength
    \/ ASetData

SpecRecords == InitRecords /\ [][NextRecords]_vars

\* C6: the answer's 16-bit length field equals the number of bytes of its data
\* after any sequence of the setters.
C6_LengthMatchesData ==
    DNSAnswer_length(answer) = Len(DNSAnswer_data(answer))

\* the bytes a record's name occupies: none before the name is first set
NameBytes(last) == IF last.named = 0 THEN <<>> ELSE _encode_labels(last.name).arr

\* C10: after any sequence of name, typ, cls, ttl and data sets, typ, cls, ttl
\* and data read back the value last written to them, and the buffer is the
\* encoded name followed by the fixed block (and, for an answer, the data).
C10_NameKeepsFields ==
    /\ DNSQuestion_typ(qPayload) = qLast.typ
    /\ DNSQuestion_cls(qPayload) = qLast.cls
    /\ qPayload = NameBytes(qLast) \o Word16(qLast.typ) \o Word16(qLast.cls)
    /\ DNSAnswer_typ(answer) = aLast.typ
    /\ DNSAnswer_cls(answer) = aLast.cls
    /\ DNSAnswer_ttl(answer) = aLast.ttl
    /\ DNSAnswer_data(answer) = aLast.data
    /\ aPayload = NameBytes(aLast) \o Word16(aLast.typ) \o Word16(aLast.cls)
                      \o Word32(aLast.ttl) \o Word16(aLast.length) \o aLast.data

\* the answer's name was set twice, to names of different encoded lengths,
\* around a write of its data, and the question's name was set as well
C10_Witness ==
    /\ aLast.named = 2
    /\ aLast.data = <<8, 8, 8, 8>>
    /\ Len(aPayload) = 20
    /\ qLast.named = 1
    /\ qLast.name = <<97, 46, 98, 99>>

----------------------------------------------------------------------------
(* One DNSMessage assembled through the codec, serialized and parsed back:  *)
(* SpecMessage                                                              *)

MaxMsgQuestions == 2
MaxMsgAnswers == 2

MsgNames == {<<>>, <<97>>, <<97, 46, 98, 99>>}
MsgData == {<<>>, <<8, 8, 8, 8>>}

otherThanMessage == <<serverVars, labelVars, headerVars, recordVars>>

InitMessage ==
    /\ mQuestions = <<>>
    /\ mAnswers = <<>>
    /\ wire = <<>>
    /\ parsed = NotParsed
    /\ ServerInit /\ LabelsIdle /\ HeaderIdle /\ RecordsIdle

\* a DNSQuestion(bytearray(4)) with its name, typ and cls set joins the list
AddQuestion ==
    /\ wire = <<>>
    /\ Len(mQuestions) < MaxMsgQuestions
    /\ \E v \in MsgNames, t \in TypValues, c \in ClsValues :
           /\ DNSQuestion_set_domain_name(Zeros(4), v).ok
           /\ mQuestions' = Append(mQuestions,
                  DNSQuestion_set_cls(
                      DNSQuestion_set_typ(
                          DNSQuestion_set_domain_name(Zeros(4), v).payload, t), c))
    /\ UNCHANGED <<mAnswers, wire, parsed>>
    /\ UNCHANGED otherThanMessage

\* a DNSAnswer(bytearray(10)) with its name, typ, cls, ttl and data set joins
\* the list
AddAnswer ==
    /\ wire = <<>>
    /\ Len(mAnswers) < MaxMsgAnswers
    /\ \E v \in MsgNames, d \in MsgData :
           /\ DNSAnswer_set_name(DNSAnswer_new(Zeros(10)), v).ok
           /\ mAnswers' = Append(mAnswers,
                  DNSAnswer_set_data(
                      DNSAnswer_set_ttl(
                          DNSAnswer_set_cls(
                              DNSAnswer_set_typ(
                                  DNSAnswer_set_name(DNSAnswer_new(Zeros(10)), v).a,
                                  DNSRRType_A),
                              DNSRRClass_IN),
                          TTL),
                      d))
    /\ UNCHANGED <<mQuestions, wire, parsed>>
    /\ UNCHANGED otherThanMessage

\* wire = DNSMessage(DNSHeader(bytearray(12)), questions, answers).payload()
Serialize ==
    /\ wire = <<>>
    /\ wire' = DNSMessage_payload(DNSMessage_new(Zeros(12), mQuestions, mAnswers))
    /\ UNCHANGED <<mQuestions, mAnswers, parsed>>
    /\ UNCHANGED otherThanMessage

\* DNSMessage.from_bytes(wire)
Parse ==
    /\ wire # <<>>
    /\ ~parsed.done
    /\ \E r \in {DNSMessage_from_bytes(wire)} :
           parsed' = [ok |-> r.ok, msg |-> r.msg, done |-> TRUE]
    /\ UNCHANGED <<mQuestions, mAnswers, wire>>
    /\ UNCHANGED otherThanMessage

NextMessage == AddQuestion \/ AddAnswer \/ Serialize \/ Parse

SpecMessage == InitMessage /\ [][NextMessage]_vars

\* C7: parsing the payload of a message assembled through the codec succeeds,
\* and the parsed header's qdcount and ancount are the numbers of questions
\* and answers of the message.
C7_MessageRoundTrip ==
    parsed.done
        => /\ parsed.ok
           /\ DNSHeader_get(parsed.msg.header, "qdcount") = Len(mQuestions)
           /\ DNSHeader_get(parsed.msg.header, "ancount") = Len(mAnswers)

----------------------------------------------------------------------------
(* Properties of the server loop, checked under Spec *)

TypeAClassIN(q) ==
    \A i \in 1..Len(q.questions) :
        q.questions[i].typ = 1 /\ q.questions[i].cls = 1

\* C1: the reply built for an intact request whose questions are all of type
\* A / class IN carries as many questions, in the same order, and each reply
\* question's wire bytes equal those of the request question.
C1_QuestionsMirrored ==
    (message # NoMessage /\ query.cut = 0 /\ TypeAClassIN(query))
        => /\ Len(message.questions) = Len(query.questions)
           /\ \A i \in 1..Len(query.questions) :
                  message.questions[i] = QuestionWire(query.questions[i])

C4_TruncatedFails ==
    (query.cut > 0 /\ pc # "handle") => requested = NoMessage

UnknownCode(q) ==
    \/ \E i \in 1..Len(q.questions) :
           q.questions[i].typ \notin DNSRRType \/ q.questions[i].cls \notin DNSRRClass
    \/ \E i \in 1..Len(q.answers) :
           q.answers[i].typ \notin DNSRRType \/ q.answers[i].cls \notin DNSRRClass

\* C5: a datagram with a type code outside 1..16 or a class code outside 1..4
\* fails in the parse path: no message is parsed from it and the loop ends
\* without a reply.
C5_UnknownCodeFails ==
    (UnknownCode(query) /\ pc # "handle") => (pc = "done" /\ requested = NoMessage)

\* the socket's history alternates receive, send, and every send goes to the
\* sender of the receive before it
TraceAlternates(t) ==
    \A i \in 1..Len(t) :
        IF i % 2 = 1 THEN t[i].kind = "recv"
        ELSE t[i].kind = "send" /\ t[i].addr = t[i - 1].addr

\* C8: the socket's history is a strict alternation receive, send, ...: a
\* datagram handled without error gets exactly one reply, to its sender,
\* before the next one is read; an iteration in which the parse, the reply's
\* building or the socket fails sends nothing and ends the loop; after the
\* loop has ended nothing is received or sent.
C8_LoopAlternation ==
    [][ /\ TraceAlternates(trace')
        /\ (pc = "recv" =>
              \/ pc' = "done" /\ trace' = trace
              \/ /\ pc' = "handle"
                 /\ trace' = Append(trace, [kind |-> "recv", addr |-> source']))
        /\ (pc = "handle" =>
              /\ trace' = trace
              /\ pc' = (IF Handle(buf).ok THEN "send" ELSE "done"))
        /\ (pc = "send" =>
              \/ pc' = "done" /\ trace' = trace
              \/ /\ pc' = "recv"
                 /\ trace' = Append(trace, [kind |-> "send", addr |-> source]))
        /\ (pc = "done" => pc' = "done" /\ trace' = trace)
      ]_vars

\* the loop has ended on the second datagram, which could not be parsed, after
\* the first one was answered
C8_Witness ==
    /\ pc = "done"
    /\ Len(trace) = 3
    /\ requested = NoMessage
    /\ trace[2].kind = "send"

====
